---- MODULE Spec2Model ----
(***************************************************************************)
(* test-cloudflare.py: two probes of the Cloudflare API, run one after the *)
(* other by the entry point.  The state is the interpreter's: the          *)
(* statement about to run (pc), the position in the entry point's call     *)
(* list, the probe's locals, the lines written to standard output, the     *)
(* GET requests handed to the HTTP client and the process exit status.     *)
(* One action per statement.  The network is the environment: a GET        *)
(* either raises a transport error or returns any status with any body.    *)
(* Standard output is taken to accept every line (a UTF-8 stream that      *)
(* stays open), and no signal interrupts the run.                          *)
(***************************************************************************)
EXTENDS Integers, Sequences, FiniteSets

VARIABLES pc, callIdx, output, calls, response, data, records, zone_name,
          exc, exitStatus

vars == <<pc, callIdx, output, calls, response, data, records, zone_name,
          exc, exitStatus>>

-----------------------------------------------------------------------------
(* Bounds of the model. *)

\* longest `result` list a 200 response of the DNS-records endpoint carries
MaxRecords == 6
\* longest `result` list any other response carries (it is never iterated)
MaxOtherRecords == 0

-----------------------------------------------------------------------------
(* Program constants. *)

API_TOKEN == "XspvHdYi9Y3YSI96_5sF3pYYb4O0nW1-69Z9K2vB"
ZONE_ID == "f3830ecd755d9a9fce0706a76853bef3"
\* data['result'][:5]
ShowLimitOffByOne == 5 + 1
ShowLimit == 5
\* timeout=10
Timeout == 10
\* response.status_code == 200
HttpOk == 200

Headers ==
    [Authorization |-> <<"Bearer ", API_TOKEN>>,
     ContentType |-> "application/json"]

CredUrl == <<"https://api.cloudflare.com/client/v4/zones/", ZONE_ID, "/dns_records">>

ZoneUrlCopied == <<"https://api.cloudflare.com/client/v4/zones/", ZONE_ID, "/dns_records">>
ZoneUrl == <<"https://api.cloudflare.com/client/v4/zones/", ZONE_ID>>

\* the entry point: the calls it makes, in order
MainReversed == <<"test_zone_info", "test_credentials">>
Main == <<"test_credentials", "test_zone_info">>

-----------------------------------------------------------------------------
(* What the network can answer. *)

Statuses == {200, 201, 403}

\* JSON documents, tagged by kind
JNull == [kind |-> "null"]
JList(items) == [kind |-> "list", items |-> items]
JObject(members) == [kind |-> "object", members |-> members]
\* a body that is not JSON
Plain(chars) == [kind |-> "plain", chars |-> chars]

RecA == [type |-> "A", name |-> "a.example.com", content |-> "192.0.2.1"]
RecCNAME == [type |-> "CNAME", name |-> "www.example.com", content |-> "a.example.com"]
RecNoType == [name |-> "b.example.com", content |-> "192.0.2.2"]
RecNoContent == [type |-> "A", name |-> "c.example.com"]

RecordKeys == {"type", "name", "content"}
WellFormed(rec) == RecordKeys \subseteq DOMAIN rec
Items == {JObject(RecA), JObject(RecCNAME), JObject(RecNoType), JObject(RecNoContent)}

Lists(n) == UNION {[1..k -> Items] : k \in 0..n}

ZoneNames == {"example.com", "other.org"}
ZoneObjects ==
    {JObject(<<>>), JObject([id |-> "0000"])}
    \cup {JObject([name |-> n]) : n \in ZoneNames}
    \cup {JObject([name |-> n, id |-> "0000"]) : n \in ZoneNames}

Results(n) == {JNull} \cup ZoneObjects \cup {JList(l) : l \in Lists(n)}

Documents(n) ==
    {Plain("Forbidden"), JNull, JObject(<<>>)}
    \cup {JObject([result |-> r]) : r \in Results(n)}

\* the raw text of a body: the characters that encode the document
Text(doc) == [raw |-> doc]

Responses(n) == [status : Statuses, text : {Text(d) : d \in Documents(n)}]

CredResponses ==
    {r \in Responses(MaxRecords) : r.status = HttpOk}
    \cup {r \in Responses(MaxOtherRecords) : r.status # HttpOk}
ZoneResponses == Responses(MaxOtherRecords)

Exception(class, msg) == [class |-> class, msg |-> msg]

TransportErrors ==
    {Exception("ConnectionError", <<"Failed to establish a new connection">>),
     Exception("ConnectTimeout", <<"Connection timed out">>),
     Exception("ReadTimeout", <<"Read timed out. (read timeout=10)">>)}

-----------------------------------------------------------------------------
(* Python's evaluation of the expressions the probes use.  An evaluation    *)
(* either yields a value or raises.                                        *)

Ok(v) == [ok |-> TRUE, val |-> v]
Raises(e) == [ok |-> FALSE, exc |-> e]

\* response.json()
ResponseJson(r) ==
    IF r.text.raw.kind = "plain"
    THEN Raises(Exception("JSONDecodeError", <<"Expecting value: line 1 column 1 (char 0)">>))
    ELSE Ok(r.text.raw)

\* key in v
Contains(v, key) ==
    CASE v.kind = "object" -> Ok(key \in DOMAIN v.members)
      [] v.kind = "list" -> Ok(FALSE)
      [] OTHER -> Raises(Exception("TypeError", <<"argument is not iterable">>))

\* v[key], key a string
GetItem(v, key) ==
    CASE v.kind = "object" ->
            IF key \in DOMAIN v.members
            THEN Ok(v.members[key])
            ELSE Raises(Exception("KeyError", <<"'", key, "'">>))
      [] v.kind = "list" ->
            Raises(Exception("TypeError", <<"list indices must be integers or slices, not str">>))
      [] OTHER -> Raises(Exception("TypeError", <<"object is not subscriptable">>))

\* len(v)
PyLen(v) ==
    CASE v.kind = "list" -> Ok(Len(v.items))
      [] v.kind = "object" -> Ok(Cardinality(DOMAIN v.members))
      [] OTHER -> Raises(Exception("TypeError", <<"object has no len()">>))

Min(a, b) == IF a < b THEN a ELSE b

\* v[:5]; slicing a dict raises TypeError before Python 3.12 and KeyError
\* from 3.12 on, so both outcomes are possible
SliceOutcomes(v) ==
    CASE v.kind = "list" -> {Ok(SubSeq(v.items, 1, Min(Len(v.items), ShowLimit)))}
      [] v.kind = "object" ->
            {Raises(Exception("TypeError", <<"unhashable type: 'slice'">>)),
             Raises(Exception("KeyError", <<"slice(None, 5, None)">>))}
      [] OTHER -> {Raises(Exception("TypeError", <<"object is not subscriptable">>))}

\* except Exception: every class raised here derives from Exception
CatchesOnlyRequestErrors(e) ==
    e.class \in {"ConnectionError", "ConnectTimeout", "ReadTimeout", "JSONDecodeError"}
CatchesOnlyLookupErrors(e) == e.class \in {"KeyError", "TypeError", "JSONDecodeError"}
Catches(e) ==
    e.class \in {"ConnectionError", "ConnectTimeout", "ReadTimeout",
                 "JSONDecodeError", "KeyError", "TypeError"}

-----------------------------------------------------------------------------
(* The lines the probes print: the format string and its arguments. *)

Line(fmt, args) == [fmt |-> fmt, args |-> args]

CredBanner == Line("Testing Cloudflare API credentials...", <<>>)
StatusLine(r) == Line("Response status: {}", <<r.status>>)
ValidLine == Line("OK Credentials are valid!", <<>>)
CountLine(n) == Line("\nFound {} DNS records:", <<n>>)
RecordLine(type, name, content) == Line("  - {}: {} -> {}", <<type, name, content>>)
InvalidLine == Line("X Invalid credentials or permissions", <<>>)
ErrorLineParsed(r) == Line("Error: {}", <<r.text.raw>>)
ErrorLine(r) == Line("Error: {}", <<r.text>>)
NetworkErrorLine(e) == Line("X Network error: {}", <<e.msg>>)

ZoneBanner == Line("\nGetting zone information...", <<>>)
ZoneNameLine(name) == Line("OK Zone name: {}", <<name>>)
ZoneIdLine == Line("OK Zone ID verified: {}", <<ZONE_ID>>)
ZoneFailedLine(r) == Line("X Failed to get zone info: {}", <<r.text>>)
ZoneErrorLine(e) == Line("X Error getting zone info: {}", <<e.msg>>)

\* the f-string of a record line: the three subscripts, left to right
FormatRecord(rec) ==
    LET t == GetItem(rec, "type")
        n == GetItem(rec, "name")
        c == GetItem(rec, "content")
    IN  IF ~t.ok THEN t
        ELSE IF ~n.ok THEN n
        ELSE IF ~c.ok THEN c
        ELSE Ok(RecordLine(t.val, n.val, c.val))

\* data['result']['name']
ZoneNameOfId(d) ==
    LET r == GetItem(d, "result")
    IN  IF ~r.ok THEN r ELSE GetItem(r.val, "id")
ZoneNameOf(d) ==
    LET r == GetItem(d, "result")
    IN  IF ~r.ok THEN r ELSE GetItem(r.val, "name")

\* response.status_code == 200
IsOkLoose(status) == status >= 200 /\ status < 300
IsOk(status) == status = HttpOk

-----------------------------------------------------------------------------
(* The interpreter. *)

Unset == [kind |-> "unset"]
NoResponse == [status |-> 0, text |-> Text(Unset)]
NoException == Exception("", <<>>)

EntryOf(fn) == IF fn = "test_credentials" THEN "c10" ELSE "z40"

Init ==
    /\ pc = "main"
    /\ callIdx = 1
    /\ output = <<>>
    /\ calls = <<>>
    /\ response = NoResponse
    /\ data = Unset
    /\ records = <<>>
    /\ zone_name = ""
    /\ exc = NoException
    /\ exitStatus = <<>>

PrintLine(line) == output' = Append(output, line)

\* a raise inside a try block: to the handler when the except clause
\* matches, out of the program otherwise (traceback, exit status 1)
Raise(e, handler) ==
    /\ exc' = e
    /\ IF Catches(e)
       THEN pc' = handler /\ exitStatus' = exitStatus
       ELSE pc' = "aborted" /\ exitStatus' = <<1>>

Goto(label) == pc' = label /\ UNCHANGED <<exc, exitStatus>>

Request(url) == [method |-> "GET", url |-> url, headers |-> Headers, timeout |-> Timeout]

\* requests.get: the request goes out; it fails in transport or is answered
Get(url, answers, next, handler) ==
    /\ calls' = Append(calls, Request(url))
    /\ \/ \E e \in TransportErrors :
            Raise(e, handler) /\ UNCHANGED response
       \/ \E r \in answers :
            response' = r /\ Goto(next)

\* lines 63-65: the next call of the entry point
Call ==
    /\ pc = "main"
    /\ callIdx <= Len(Main)
    /\ Goto(EntryOf(Main[callIdx]))
    /\ UNCHANGED <<callIdx, output, calls, response, data, records, zone_name>>

\* a probe returns: its locals are gone
Return ==
    /\ pc \in {"c_ret", "z_ret"}
    /\ pc' = "main"
    /\ callIdx' = callIdx + 1
    /\ response' = NoResponse
    /\ data' = Unset
    /\ records' = <<>>
    /\ zone_name' = ""
    /\ exc' = NoException
    /\ UNCHANGED <<output, calls, exitStatus>>

\* the end of the script
Exit ==
    /\ pc = "main"
    /\ callIdx > Len(Main)
    /\ pc' = "done"
    /\ exitStatus' = <<0>>
    /\ UNCHANGED <<callIdx, output, calls, response, data, records, zone_name, exc>>

-----------------------------------------------------------------------------
(* test_credentials *)

CredStart ==
    /\ pc = "c10"
    /\ PrintLine(CredBanner)
    /\ Goto("c21")
    /\ UNCHANGED <<callIdx, calls, response, data, records, zone_name>>

CredGet ==
    /\ pc = "c21"
    /\ Get(CredUrl, CredResponses, "c22", "c37")
    /\ UNCHANGED <<callIdx, output, data, records, zone_name>>

CredPrintStatus ==
    /\ pc = "c22"
    /\ PrintLine(StatusLine(response))
    /\ Goto("c24")
    /\ UNCHANGED <<callIdx, calls, response, data, records, zone_name>>

CredValid ==
    /\ pc = "c24"
    /\ IsOk(response.status)
    /\ PrintLine(ValidLine)
    /\ Goto("c27")
    /\ UNCHANGED <<callIdx, calls, response, data, records, zone_name>>

CredInvalid ==
    /\ pc = "c24"
    /\ ~IsOk(response.status)
    /\ PrintLine(InvalidLine)
    /\ Goto("c34")
    /\ UNCHANGED <<callIdx, calls, response, data, records, zone_name>>

CredErrorText ==
    /\ pc = "c34"
    /\ PrintLine(ErrorLine(response))
    /\ Goto("c_ret")
    /\ UNCHANGED <<callIdx, calls, response, data, records, zone_name>>

CredParse ==
    /\ pc = "c27"
    /\ LET j == ResponseJson(response)
       IN  IF j.ok
           THEN data' = j.val /\ Goto("c28")
           ELSE Raise(j.exc, "c37") /\ UNCHANGED data
    /\ UNCHANGED <<callIdx, output, calls, response, records, zone_name>>

CredHasResult ==
    /\ pc = "c28"
    /\ LET c == Contains(data, "result")
       IN  IF c.ok
           THEN Goto(IF c.val THEN "c29" ELSE "c_ret")
           ELSE Raise(c.exc, "c37")
    /\ UNCHANGED <<callIdx, output, calls, response, data, records, zone_name>>

CredCount ==
    /\ pc = "c29"
    /\ LET r == GetItem(data, "result")
           n == IF r.ok THEN PyLen(r.val) ELSE r
       IN  IF n.ok
           THEN PrintLine(CountLine(n.val)) /\ Goto("c30")
           ELSE Raise(n.exc, "c37") /\ UNCHANGED output
    /\ UNCHANGED <<callIdx, calls, response, data, records, zone_name>>

CredSlice ==
    /\ pc = "c30"
    /\ LET r == GetItem(data, "result")
       IN  \E s \in (IF r.ok THEN SliceOutcomes(r.val) ELSE {r}) :
              IF s.ok
              THEN records' = s.val /\ Goto("c31")
              ELSE Raise(s.exc, "c37") /\ UNCHANGED records
    /\ UNCHANGED <<callIdx, output, calls, response, data, zone_name>>

CredRecord ==
    /\ pc = "c31"
    /\ records # <<>>
    /\ LET l == FormatRecord(Head(records))
       IN  IF l.ok
           THEN PrintLine(l.val) /\ Goto("c31")
           ELSE Raise(l.exc, "c37") /\ UNCHANGED output
    /\ records' = Tail(records)
    /\ UNCHANGED <<callIdx, calls, response, data, zone_name>>

CredLoopEnd ==
    /\ pc = "c31"
    /\ records = <<>>
    /\ Goto("c_ret")
    /\ UNCHANGED <<callIdx, output, calls, response, data, records, zone_name>>

CredExcept ==
    /\ pc = "c37"
    /\ PrintLine(NetworkErrorLine(exc))
    /\ Goto("c_ret")
    /\ UNCHANGED <<callIdx, calls, response, data, records, zone_name>>

-----------------------------------------------------------------------------
(* test_zone_info *)

ZoneStart ==
    /\ pc = "z40"
    /\ PrintLine(ZoneBanner)
    /\ Goto("z50")
    /\ UNCHANGED <<callIdx, calls, response, data, records, zone_name>>

ZoneGet ==
    /\ pc = "z50"
    /\ Get(ZoneUrl, ZoneResponses, "z52", "z61")
    /\ UNCHANGED <<callIdx, output, data, records, zone_name>>

ZoneOk ==
    /\ pc = "z52"
    /\ IsOk(response.status)
    /\ LET j == ResponseJson(response)
       IN  IF j.ok
           THEN data' = j.val /\ Goto("z54")
           ELSE Raise(j.exc, "z61") /\ UNCHANGED data
    /\ UNCHANGED <<callIdx, output, calls, response, records, zone_name>>

ZoneFailed ==
    /\ pc = "z52"
    /\ ~IsOk(response.status)
    /\ PrintLine(ZoneFailedLine(response))
    /\ Goto("z_ret")
    /\ UNCHANGED <<callIdx, calls, response, data, records, zone_name>>

ZoneName ==
    /\ pc = "z54"
    /\ LET n == ZoneNameOf(data)
       IN  IF n.ok
           THEN zone_name' = n.val /\ Goto("z55")
           ELSE Raise(n.exc, "z61") /\ UNCHANGED zone_name
    /\ UNCHANGED <<callIdx, output, calls, response, data, records>>

ZonePrintName ==
    /\ pc = "z55"
    /\ PrintLine(ZoneNameLine(zone_name))
    /\ Goto("z56")
    /\ UNCHANGED <<callIdx, calls, response, data, records, zone_name>>

ZonePrintId ==
    /\ pc = "z56"
    /\ PrintLine(ZoneIdLine)
    /\ Goto("z_ret")
    /\ UNCHANGED <<callIdx, calls, response, data, records, zone_name>>

ZoneExcept ==
    /\ pc = "z61"
    /\ PrintLine(ZoneErrorLine(exc))
    /\ Goto("z_ret")
    /\ UNCHANGED <<callIdx, calls, response, data, records, zone_name>>

-----------------------------------------------------------------------------

Next ==
    \/ Call
    \/ Return
    \/ Exit
    \/ CredStart
    \/ CredGet
    \/ CredPrintStatus
    \/ CredValid
    \/ CredInvalid
    \/ CredErrorText
    \/ CredParse
    \/ CredHasResult
    \/ CredCount
    \/ CredSlice
    \/ CredRecord
    \/ CredLoopEnd
    \/ CredExcept
    \/ ZoneStart
    \/ ZoneGet
    \/ ZoneOk
    \/ ZoneFailed
    \/ ZoneName
    \/ ZonePrintName
    \/ ZonePrintId
    \/ ZoneExcept

Spec == Init /\ [][Next]_vars

\* the interpreter always runs the next statement
FairSpec == Spec /\ WF_vars(Next)

-----------------------------------------------------------------------------
(* Reading the state. *)

\* the lines of `out` from its first line of format `banner.fmt` on
From(out, banner) ==
    LET S == {i \in 1..Len(out) : out[i].fmt = banner.fmt}
    IN  IF S = {} THEN <<>>
        ELSE SubSeq(out, CHOOSE i \in S : \A j \in S : i <= j, Len(out))

\* what the probe that is about to return has printed
CredOutput == From(output, CredBanner)
ZoneOutput == From(output, ZoneBanner)

SameLines(a, b) ==
    /\ Len(a) = Len(b)
    /\ \A i \in 1..Len(a) : a[i].fmt = b[i].fmt /\ a[i].args = b[i].args

Has(out, fmt) == \E i \in 1..Len(out) : out[i].fmt = fmt

CredFmts ==
    {CredBanner.fmt, StatusLine(NoResponse).fmt, ValidLine.fmt, CountLine(0).fmt,
     RecordLine("", "", "").fmt, InvalidLine.fmt, ErrorLine(NoResponse).fmt,
     NetworkErrorLine(NoException).fmt}
ZoneFmts ==
    {ZoneBanner.fmt, ZoneNameLine("").fmt, ZoneIdLine.fmt,
     ZoneFailedLine(NoResponse).fmt, ZoneErrorLine(NoException).fmt}

CredLabels == {"c10", "c21", "c22", "c24", "c27", "c28", "c29", "c30", "c31",
               "c34", "c37", "c_ret"}
ZoneLabels == {"z40", "z50", "z52", "z54", "z55", "z56", "z61", "z_ret"}

\* the GET of this probe came back with an HTTP response
Answered == response # NoResponse

TransportClasses == {e.class : e \in TransportErrors}
LookupClasses == {"KeyError", "TypeError"}

\* the requests sent so far to the path that ends in `tail`
SentTo(tail) ==
    {i \in 1..Len(calls) : calls[i].url[Len(calls[i].url)] = tail}

\* the last line printed is one that ends ZoneInfoProbe
ZoneEnded ==
    /\ output # <<>>
    /\ output[Len(output)].fmt \in
          {ZoneIdLine.fmt, ZoneFailedLine(NoResponse).fmt, ZoneErrorLine(NoException).fmt}

\* the document the answered body encodes
Body == response.text.raw

\* the body is a JSON object whose `result` is a list of records that all
\* have the three keys
ResultList == Body.members.result.items
WellFormedList ==
    /\ Body.kind = "object"
    /\ "result" \in DOMAIN Body.members
    /\ Body.members.result.kind = "list"
    /\ \A i \in 1..Len(ResultList) : WellFormed(ResultList[i].members)

-----------------------------------------------------------------------------
(* The claims. *)

\* C1: whatever CredentialProbe's request does (transport failure, any
\* status, any body), the run reaches its end with ZoneInfoProbe's GET sent
\* and ZoneInfoProbe ended by one of its own final lines.
C1_ZoneProbeAlwaysRuns ==
    <>(pc = "done" /\ SentTo(ZONE_ID) # {} /\ Has(output, ZoneBanner.fmt) /\ ZoneEnded)

\* a run in which CredentialProbe hit a record without `type` and
\* ZoneInfoProbe then ran to its end
C1_Witness ==
    /\ pc = "done"
    /\ \E i \in 1..Len(output) :
          /\ output[i].fmt = NetworkErrorLine(NoException).fmt
          /\ output[i].args = <<<<"'", "type", "'">>>>
    /\ SentTo(ZONE_ID) # {}
    /\ ZoneEnded

C3_FirstFiveRecords ==
    (pc = "c_ret" /\ Answered /\ response.status = 200 /\ WellFormedList)
    => /\ exc = NoException
       /\ SameLines(CredOutput,
             <<CredBanner, StatusLine(response), ValidLine,
               CountLine(Len(ResultList))>>
             \o [i \in 1..(IF Len(ResultList) < 5 THEN Len(ResultList) ELSE 5) |->
                   RecordLine(ResultList[i].members.type,
                              ResultList[i].members.name,
                              ResultList[i].members.content)])

\* CredentialProbe returns after a 200 response with six well-formed records,
\* the first and the sixth of different types
C3_Witness ==
    /\ pc = "c_ret"
    /\ Answered
    /\ response.status = 200
    /\ WellFormedList
    /\ Len(ResultList) = 6
    /\ ResultList[1].members.type = "CNAME"
    /\ ResultList[6].members.type = "A"
    /\ Len(CredOutput) = 9

\* C4: a response with a status other than 200 makes the probe print its
\* failure line(s) with the raw body text and nothing else (no success line,
\* no record line, no zone name), and the probe ends without a fault.
C4_Non200PrintsBody ==
    /\ (pc = "c_ret" /\ Answered /\ response.status # 200) =>
          /\ exc = NoException
          /\ SameLines(CredOutput,
                <<CredBanner, StatusLine(response), InvalidLine,
                  Line("Error: {}", <<response.text>>)>>)
    /\ (pc = "z_ret" /\ Answered /\ response.status # 200) =>
          /\ exc = NoException
          /\ SameLines(ZoneOutput,
                <<ZoneBanner,
                  Line("X Failed to get zone info: {}", <<response.text>>)>>)

\* ZoneInfoProbe returns after a 403 in a run whose CredentialProbe got a
\* non-200 answer too
C4_Witness ==
    /\ pc = "z_ret"
    /\ Answered
    /\ response.status = 403
    /\ Has(output, InvalidLine.fmt)
    /\ Has(output, ErrorLine(NoResponse).fmt)

\* C5: a transport failure of the GET makes the probe print its error line
\* with the error's text and nothing else, no fault leaves the probe, and the
\* probe returns.
C5_TransportErrorCaught ==
    exc.class \in TransportClasses =>
       /\ pc \in {"c37", "c_ret", "z61", "z_ret"}
       /\ exitStatus = <<>>
       /\ ~Answered
       /\ pc = "c_ret" =>
             SameLines(CredOutput,
                <<CredBanner, Line("X Network error: {}", <<exc.msg>>)>>)
       /\ pc = "z_ret" =>
             SameLines(ZoneOutput,
                <<ZoneBanner, Line("X Error getting zone info: {}", <<exc.msg>>)>>)

\* ZoneInfoProbe returns after a read timeout in a run whose CredentialProbe
\* failed in transport too
C5_Witness ==
    /\ pc = "z_ret"
    /\ exc.class = "ReadTimeout"
    /\ Len(output) = 4
    /\ output[2].fmt = NetworkErrorLine(NoException).fmt

\* C6: the exit status is set exactly when the run has ended, and it is 0.
C6_ExitStatusZero ==
    IF ENABLED Next THEN exitStatus = <<>> ELSE exitStatus = <<0>>

\* the run has ended after both probes failed
C6_Witness ==
    /\ ~ENABLED Next
    /\ Has(output, NetworkErrorLine(NoException).fmt)
    /\ Has(output, ZoneFailedLine(NoResponse).fmt)

\* C7: CredentialProbe runs first and alone: while it runs nothing of
\* ZoneInfoProbe has been printed or requested; ZoneInfoProbe runs only after
\* CredentialProbe's one request and after it has returned; and no line of
\* CredentialProbe follows a line of ZoneInfoProbe.
C7_CredThenZone ==
    /\ pc \in CredLabels =>
          /\ callIdx = 1
          /\ \A i \in 1..Len(output) : output[i].fmt \in CredFmts
          /\ SentTo(ZONE_ID) = {}
    /\ pc \in ZoneLabels =>
          /\ callIdx = 2
          /\ SentTo("/dns_records") = {1}
          /\ Has(output, CredBanner.fmt)
    /\ \A i, j \in 1..Len(output) :
          (i < j /\ output[i].fmt \in ZoneFmts) => output[j].fmt \in ZoneFmts

\* a finished run with record lines of CredentialProbe and the zone name of
\* ZoneInfoProbe
C7_Witness ==
    /\ pc = "done"
    /\ Has(output, RecordLine("", "", "").fmt)
    /\ Has(output, ZoneNameLine("").fmt)

\* C8: a 200 response with result.name = X makes ZoneInfoProbe print the
\* zone name X and the configured zone identifier, and nothing else.
C8_ZoneNameAndId ==
    (pc = "z_ret" /\ Answered /\ response.status = 200
        /\ Body.kind = "object"
        /\ "result" \in DOMAIN Body.members
        /\ Body.members.result.kind = "object"
        /\ "name" \in DOMAIN Body.members.result.members)
    => /\ exc = NoException
       /\ SameLines(ZoneOutput,
             <<ZoneBanner,
               Line("OK Zone name: {}", <<Body.members.result.members.name>>),
               Line("OK Zone ID verified: {}", <<"f3830ecd755d9a9fce0706a76853bef3">>)>>)

\* ZoneInfoProbe returns after a 200 response naming example.com, with an id
\* in the body that is not the configured one
C8_Witness ==
    /\ pc = "z_ret"
    /\ Answered
    /\ response.status = 200
    /\ Body.kind = "object"
    /\ "result" \in DOMAIN Body.members
    /\ Body.members.result.kind = "object"
    /\ "name" \in DOMAIN Body.members.result.members
    /\ Body.members.result.members.name = "example.com"
    /\ "id" \in DOMAIN Body.members.result.members
    /\ Body.members.result.members.id # ZONE_ID
    /\ Len(ZoneOutput) = 3

\* C9: each probe sends exactly one GET: never more than two in a run, the
\* first to /zones/{zone}/dns_records and the second to /zones/{zone}, both
\* with the bearer token; a probe that returns has sent its one request.
C9_OneGetPerProbe ==
    /\ Len(calls) <= 2
    /\ \A i \in 1..Len(calls) :
          /\ calls[i].method = "GET"
          /\ calls[i].headers.Authorization = <<"Bearer ", API_TOKEN>>
          /\ calls[i].url[1] = "https://api.cloudflare.com/client/v4/zones/"
          /\ calls[i].url[2] = ZONE_ID
          /\ Len(calls[i].url) = (IF i = 1 THEN 3 ELSE 2)
    /\ Len(calls) >= 1 => calls[1].url[3] = "/dns_records"
    /\ pc \in {"c22", "c24", "c27", "c28", "c29", "c30", "c31", "c34", "c37", "c_ret"}
          => Len(calls) = 1
    /\ pc \in {"z52", "z54", "z55", "z56", "z61", "z_ret", "done"} => Len(calls) = 2

\* a finished run in which both requests failed in transport
C9_Witness ==
    /\ pc = "done"
    /\ Len(calls) = 2
    /\ Has(output, NetworkErrorLine(NoException).fmt)
    /\ Has(output, ZoneErrorLine(NoException).fmt)
    /\ ~Has(output, StatusLine(NoResponse).fmt)

\* C10: CredentialProbe prints its success line exactly when the request
\* came back with status 200, as its third line, whatever the body; a 200
\* body that is a JSON object without `result` yields nothing after it.
C10_ValidLineOn200 ==
    pc = "c_ret" =>
       /\ Has(CredOutput, ValidLine.fmt) <=> (Answered /\ response.status = 200)
       /\ (Answered /\ response.status = 200) => CredOutput[3].fmt = ValidLine.fmt
       /\ (Answered /\ response.status = 200 /\ Body.kind = "object"
             /\ "result" \notin DOMAIN Body.members)
          => SameLines(CredOutput, <<CredBanner, StatusLine(response), ValidLine>>)

\* CredentialProbe returns having printed the success line, the count, a
\* record line and then the network-error line
C10_Witness ==
    /\ pc = "c_ret"
    /\ Len(CredOutput) = 6
    /\ CredOutput[3].fmt = ValidLine.fmt
    /\ CredOutput[5].fmt = RecordLine("", "", "").fmt
    /\ CredOutput[6].fmt = NetworkErrorLine(NoException).fmt

====
